---- MODULE Spec2Model ----
(***************************************************************************)
(* Model of the gocsv CSVReader (reader.go, errors.go): a CSV decoder that *)
(* reads one row at a time and populates the fields of a destination       *)
(* struct through `csv:"name[,timeFormat]"` tags.                          *)
(*                                                                         *)
(* Go strings are modelled as sequences of one-character strings, so that  *)
(* TrimSpace, ToLower, Split, ParseInt, time.Format and time.Parse are     *)
(* computed character by character as the library computes them.           *)
(***************************************************************************)
EXTENDS Integers, Sequences, FiniteSets, TLC

\* ------------------------------------------------------------------------
\* strings (package strings / strconv)
\* ------------------------------------------------------------------------

Digits == {"0","1","2","3","4","5","6","7","8","9"}

UpperChars == {"A","B","C","D","E","F","G","H","I","J","K","L","M",
               "N","O","P","Q","R","S","T","U","V","W","X","Y","Z"}

LowerChars == {"a","b","c","d","e","f","g","h","i","j","k","l","m",
               "n","o","p","q","r","s","t","u","v","w","x","y","z"}

\* unicode.IsSpace restricted to the characters a cell of the model can hold
SpaceChars == {" ", "\t"}

DigitVal(c) ==
    CASE c = "0" -> 0 [] c = "1" -> 1 [] c = "2" -> 2 [] c = "3" -> 3
      [] c = "4" -> 4 [] c = "5" -> 5 [] c = "6" -> 6 [] c = "7" -> 7
      [] c = "8" -> 8 [] c = "9" -> 9

DigitChar(n) ==
    CASE n = 0 -> "0" [] n = 1 -> "1" [] n = 2 -> "2" [] n = 3 -> "3"
      [] n = 4 -> "4" [] n = 5 -> "5" [] n = 6 -> "6" [] n = 7 -> "7"
      [] n = 8 -> "8" [] n = 9 -> "9"

LowerOf(c) ==
    CASE c = "A" -> "a" [] c = "B" -> "b" [] c = "C" -> "c" [] c = "D" -> "d"
      [] c = "E" -> "e" [] c = "F" -> "f" [] c = "G" -> "g" [] c = "H" -> "h"
      [] c = "I" -> "i" [] c = "J" -> "j" [] c = "K" -> "k" [] c = "L" -> "l"
      [] c = "M" -> "m" [] c = "N" -> "n" [] c = "O" -> "o" [] c = "P" -> "p"
      [] c = "Q" -> "q" [] c = "R" -> "r" [] c = "S" -> "s" [] c = "T" -> "t"
      [] c = "U" -> "u" [] c = "V" -> "v" [] c = "W" -> "w" [] c = "X" -> "x"
      [] c = "Y" -> "y" [] c = "Z" -> "z" [] OTHER -> c

\* strings.ToLower
ToLower(s) == [i \in 1..Len(s) |-> LowerOf(s[i])]

\* s[n:] and s[:n] of Go, n counted from 0
Drop(s, n) == SubSeq(s, n + 1, Len(s))
Take(s, n) == SubSeq(s, 1, n)

\* strings.HasPrefix
HasPrefix(s, p) == Len(s) >= Len(p) /\ Take(s, Len(p)) = p

\* strings.Contains
Contains(s, sub) ==
    \E i \in 0..(Len(s) - Len(sub)) : SubSeq(s, i + 1, i + Len(sub)) = sub

\* strings.TrimSpace
RECURSIVE TrimLeft(_)
TrimLeft(s) ==
    IF s # <<>> /\ Head(s) \in SpaceChars THEN TrimLeft(Tail(s)) ELSE s

RECURSIVE TrimRight(_)
TrimRight(s) ==
    IF s # <<>> /\ s[Len(s)] \in SpaceChars
    THEN TrimRight(Take(s, Len(s) - 1)) ELSE s

TrimSpace(s) == TrimRight(TrimLeft(s))

\* strings.Split(s, ","): the pieces between every comma
RECURSIVE Split(_, _)
Split(s, acc) ==
    IF s = <<>> THEN <<acc>>
    ELSE IF Head(s) = "," THEN <<acc>> \o Split(Tail(s), <<>>)
    ELSE Split(Tail(s), Append(acc, Head(s)))

AllDigits(s) == \A i \in 1..Len(s) : s[i] \in Digits

\* decimal value of a run of digits
RECURSIVE Atoi(_)
Atoi(s) ==
    IF s = <<>> THEN 0 ELSE 10 * Atoi(Take(s, Len(s) - 1)) + DigitVal(s[Len(s)])

\* strconv.ParseInt(value, 10, 64): an optional sign, then one or more digits.
\* The range error of the 64-bit result needs a cell of 19 digits or more; the
\* cells of the model are shorter, so only the syntax error is modelled.
ParseInt(s) ==
    LET neg  == s # <<>> /\ Head(s) = "-"
        body == IF s # <<>> /\ Head(s) \in {"+", "-"} THEN Tail(s) ELSE s
    IN  IF body = <<>> \/ ~AllDigits(body) THEN [ok |-> FALSE, val |-> 0]
        ELSE [ok |-> TRUE, val |-> IF neg THEN 0 - Atoi(body) ELSE Atoi(body)]

\* parseBool without the lowering of the value: the forms as written only
parseBoolStrict(value) ==
    IF value \in { <<"t","r","u","e">>, <<"1">>, <<"y","e","s">>, <<"y">> } THEN [ok |-> TRUE, val |-> TRUE]
    ELSE IF value \in { <<"f","a","l","s","e">>, <<"0">>, <<"n","o">>, <<"n">> } THEN [ok |-> TRUE, val |-> FALSE]
    ELSE [ok |-> FALSE, val |-> FALSE]

\* parseBool
parseBool(value) ==
    LET v == ToLower(value)
    IN  IF v \in {<<"t","r","u","e">>, <<"1">>, <<"y","e","s">>, <<"y">>} THEN [ok |-> TRUE, val |-> TRUE]
        ELSE IF v \in {<<"f","a","l","s","e">>, <<"0">>, <<"n","o">>, <<"n">>} THEN [ok |-> TRUE, val |-> FALSE]
        ELSE [ok |-> FALSE, val |-> FALSE]

\* ------------------------------------------------------------------------
\* package time: layouts, Format and Parse
\* ------------------------------------------------------------------------

\* layout[i:i+len(s)] == s, i counted from 0
At(layout, i, s) ==
    Len(layout) >= i + Len(s) /\ SubSeq(layout, i + 1, i + Len(s)) = s

startsWithLowerCase(s) == s # <<>> /\ Head(s) \in LowerChars

\* one case of the switch of time.nextStdChunk: the layout element starting
\* at offset i, as [std, lit, len]: lit characters from i on still belong to
\* the literal prefix, the element takes the len characters after them.
\* Of the numeric zone elements only "-0700" and "Z07:00" are recognised:
\* no layout of the model holds another one.
NoStd == [std |-> "", lit |-> 0, len |-> 0]

Std(name, n) == [std |-> name, lit |-> 0, len |-> n]

FracRun(layout, i) ==
    \* end (exclusive, from 0) of the run of layout[i+1] repeated after i
    LET ch == layout[i + 2]
        ends == {j \in (i + 1)..Len(layout) :
                    /\ \A k \in (i + 1)..(j - 1) : layout[k + 1] = ch
                    /\ (j = Len(layout) \/ layout[j + 1] # ch)}
    IN  CHOOSE j \in ends : TRUE

StdAt(layout, i) ==
    LET c == layout[i + 1]
    IN  CASE c = "J" ->
               IF At(layout, i, <<"J","a","n">>)
               THEN IF At(layout, i, <<"J","a","n","u","a","r","y">>) THEN Std("stdLongMonth", 7)
                    ELSE IF ~startsWithLowerCase(Drop(layout, i + 3))
                         THEN Std("stdMonth", 3) ELSE NoStd
               ELSE NoStd
          [] c = "M" ->
               IF At(layout, i, <<"M","o","n">>) /\ At(layout, i, <<"M","o","n","d","a","y">>)
               THEN Std("stdLongWeekDay", 6)
               ELSE IF At(layout, i, <<"M","o","n">>) /\ ~startsWithLowerCase(Drop(layout, i + 3))
               THEN Std("stdWeekDay", 3)
               ELSE IF At(layout, i, <<"M","S","T">>) THEN Std("stdTZ", 3)
               ELSE NoStd
          [] c = "0" ->
               IF At(layout, i, <<"0","1">>) THEN Std("stdZeroMonth", 2)
               ELSE IF At(layout, i, <<"0","2">>) THEN Std("stdZeroDay", 2)
               ELSE IF At(layout, i, <<"0","3">>) THEN Std("stdZeroHour12", 2)
               ELSE IF At(layout, i, <<"0","4">>) THEN Std("stdZeroMinute", 2)
               ELSE IF At(layout, i, <<"0","5">>) THEN Std("stdZeroSecond", 2)
               ELSE IF At(layout, i, <<"0","6">>) THEN Std("stdYear", 2)
               ELSE IF At(layout, i, <<"0","0","2">>) THEN Std("stdZeroYearDay", 3)
               ELSE NoStd
          [] c = "1" ->
               IF At(layout, i, <<"1","5">>) THEN Std("stdHour", 2)
               ELSE Std("stdNumMonth", 1)
          [] c = "2" ->
               IF At(layout, i, <<"2","0","0","6">>) THEN Std("stdLongYear", 4)
               ELSE Std("stdDay", 1)
          [] c = "_" ->
               IF At(layout, i, <<"_","2","0","0","6">>)
               THEN [std |-> "stdLongYear", lit |-> 1, len |-> 4]
               ELSE IF At(layout, i, <<"_","2">>) THEN Std("stdUnderDay", 2)
               ELSE IF At(layout, i, <<"_","_","2">>) THEN Std("stdUnderYearDay", 3)
               ELSE NoStd
          [] c = "3" -> Std("stdHour12", 1)
          [] c = "4" -> Std("stdMinute", 1)
          [] c = "5" -> Std("stdSecond", 1)
          [] c = "P" -> IF At(layout, i, <<"P","M">>) THEN Std("stdPM", 2) ELSE NoStd
          [] c = "p" -> IF At(layout, i, <<"p","m">>) THEN Std("stdpm", 2) ELSE NoStd
          [] c = "-" -> IF At(layout, i, <<"-","0","7","0","0">>) THEN Std("stdNumTZ", 5) ELSE NoStd
          [] c = "Z" -> IF At(layout, i, <<"Z","0","7",":","0","0">>) THEN Std("stdISO8601ColonTZ", 6)
                        ELSE NoStd
          [] c \in {".", ","} ->
               IF i + 1 < Len(layout) /\ layout[i + 2] \in {"0", "9"}
               THEN LET j == FracRun(layout, i)
                    IN  IF j < Len(layout) /\ layout[j + 1] \in Digits THEN NoStd
                        ELSE Std(IF layout[i + 2] = "0" THEN "stdFracSecond0"
                                 ELSE "stdFracSecond9", j - i)
               ELSE NoStd
          [] OTHER -> NoStd

\* the loop of time.nextStdChunk: the first offset from i on where a layout
\* element starts, Len(layout) when there is none
RECURSIVE firstStd(_, _)
firstStd(layout, i) ==
    IF i >= Len(layout) THEN Len(layout)
    ELSE IF StdAt(layout, i).std # "" THEN i
    ELSE firstStd(layout, i + 1)

\* time.nextStdChunk: the first layout element, with the literal text before
\* it and the layout after it; std = "" when the layout is all literal
nextStdChunk(layout) ==
    LET i == firstStd(layout, 0)
    IN  IF i = Len(layout)
        THEN [prefix |-> layout, std |-> "", width |-> 0, suffix |-> <<>>]
        ELSE LET e == StdAt(layout, i)
             IN  [prefix |-> Take(layout, i + e.lit), std |-> e.std,
                  width  |-> e.len,
                  suffix |-> Drop(layout, i + e.lit + e.len)]

\* a time.Time: the wall clock fields and the zone offset in seconds east of
\* UTC. Fractions of a second are not represented: no cell of the model
\* holds "." or ",". The local zone of the process is UTC: a time parsed
\* with offset 0 is in the zone named UTC, a time parsed with another offset
\* is in a zone of that offset without a name.
Date(y, mo, d, h, mi, sec, offset) ==
    [year |-> y, month |-> mo, day |-> d, hour |-> h, min |-> mi, sec |-> sec,
     off |-> offset]

\* time.Time{}: January 1, year 1, 00:00:00 UTC
ZeroTime == Date(1, 1, 1, 0, 0, 0, 0)

\* the reference time of ValidateTimeLayout
referenceTime == Date(2006, 1, 2, 15, 4, 5, 0)

shortMonthNames ==
    << <<"J","a","n">>, <<"F","e","b">>, <<"M","a","r">>, <<"A","p","r">>, <<"M","a","y">>, <<"J","u","n">>,
       <<"J","u","l">>, <<"A","u","g">>, <<"S","e","p">>, <<"O","c","t">>, <<"N","o","v">>, <<"D","e","c">> >>

longMonthNames ==
    << <<"J","a","n","u","a","r","y">>, <<"F","e","b","r","u","a","r","y">>, <<"M","a","r","c","h">>, <<"A","p","r","i","l">>, <<"M","a","y">>, <<"J","u","n","e">>,
       <<"J","u","l","y">>, <<"A","u","g","u","s","t">>, <<"S","e","p","t","e","m","b","e","r">>, <<"O","c","t","o","b","e","r">>, <<"N","o","v","e","m","b","e","r">>, <<"D","e","c","e","m","b","e","r">> >>

shortDayNames == << <<"S","u","n">>, <<"M","o","n">>, <<"T","u","e">>, <<"W","e","d">>, <<"T","h","u">>, <<"F","r","i">>, <<"S","a","t">> >>

longDayNames ==
    << <<"S","u","n","d","a","y">>, <<"M","o","n","d","a","y">>, <<"T","u","e","s","d","a","y">>, <<"W","e","d","n","e","s","d","a","y">>, <<"T","h","u","r","s","d","a","y">>, <<"F","r","i","d","a","y">>,
       <<"S","a","t","u","r","d","a","y">> >>

isLeap(year) == year % 4 = 0 /\ (year % 100 # 0 \/ year % 400 = 0)

daysBefore == <<0, 31, 59, 90, 120, 151, 181, 212, 243, 273, 304, 334, 365>>

daysIn(m, year) ==
    IF m = 2 /\ isLeap(year) THEN 29 ELSE daysBefore[m + 1] - daysBefore[m]

\* Time.YearDay
YearDay(t) ==
    daysBefore[t.month] + t.day + (IF isLeap(t.year) /\ t.month > 2 THEN 1 ELSE 0)

\* Time.Weekday, 0 = Sunday, through the day number of the date
Weekday(t) ==
    LET a  == (14 - t.month) \div 12
        yy == t.year + 4800 - a
        mm == t.month + 12 * a - 3
        jdn == t.day + (153 * mm + 2) \div 5 + 365 * yy + yy \div 4
               - yy \div 100 + yy \div 400 - 32045
    IN  (jdn + 1) % 7

\* decimal digits of x >= 0
RECURSIVE Itoa(_)
Itoa(x) == IF x < 10 THEN <<DigitChar(x)>> ELSE Append(Itoa(x \div 10), DigitChar(x % 10))

RECURSIVE PadLeft(_, _, _)
PadLeft(s, width, c) == IF Len(s) >= width THEN s ELSE PadLeft(<<c>> \o s, width, c)

\* time.appendInt for x >= 0: zero-padded to width
appendInt(x, width) == PadLeft(Itoa(x), width, "0")

Abs(x) == IF x < 0 THEN 0 - x ELSE x

\* the switch of Time.AppendFormat: one layout element rendered
FormatStd(t, std, width) ==
    LET zone == Abs(t.off) \div 60
        sign == IF t.off < 0 THEN "-" ELSE "+"
    IN
    CASE std = "stdYear"        -> appendInt(Abs(t.year) % 100, 2)
      [] std = "stdLongYear"    -> appendInt(t.year, 4)
      [] std = "stdMonth"       -> shortMonthNames[t.month]
      [] std = "stdLongMonth"   -> longMonthNames[t.month]
      [] std = "stdNumMonth"    -> appendInt(t.month, 0)
      [] std = "stdZeroMonth"   -> appendInt(t.month, 2)
      [] std = "stdWeekDay"     -> shortDayNames[Weekday(t) + 1]
      [] std = "stdLongWeekDay" -> longDayNames[Weekday(t) + 1]
      [] std = "stdDay"         -> appendInt(t.day, 0)
      [] std = "stdUnderDay"    -> PadLeft(Itoa(t.day), 2, " ")
      [] std = "stdZeroDay"     -> appendInt(t.day, 2)
      [] std = "stdUnderYearDay" -> PadLeft(Itoa(YearDay(t)), 3, " ")
      [] std = "stdZeroYearDay" -> appendInt(YearDay(t), 3)
      [] std = "stdHour"        -> appendInt(t.hour, 2)
      [] std = "stdHour12"      ->
             appendInt(IF t.hour % 12 = 0 THEN 12 ELSE t.hour % 12, 0)
      [] std = "stdZeroHour12"  ->
             appendInt(IF t.hour % 12 = 0 THEN 12 ELSE t.hour % 12, 2)
      [] std = "stdMinute"      -> appendInt(t.min, 0)
      [] std = "stdZeroMinute"  -> appendInt(t.min, 2)
      [] std = "stdSecond"      -> appendInt(t.sec, 0)
      [] std = "stdZeroSecond"  -> appendInt(t.sec, 2)
      [] std = "stdPM"          -> IF t.hour >= 12 THEN <<"P","M">> ELSE <<"A","M">>
      [] std = "stdpm"          -> IF t.hour >= 12 THEN <<"p","m">> ELSE <<"a","m">>
      [] std = "stdISO8601ColonTZ" ->
             IF t.off = 0 THEN <<"Z">>
             ELSE <<sign>> \o appendInt(zone \div 60, 2) \o <<":">>
                  \o appendInt(zone % 60, 2)
      [] std = "stdNumTZ"       ->
             <<sign>> \o appendInt(zone \div 60, 2) \o appendInt(zone % 60, 2)
      [] std = "stdTZ"          ->
             \* a zone without a name prints as -0700; UTC has one
             IF t.off = 0 THEN <<"U","T","C">>
             ELSE <<sign>> \o appendInt(zone \div 60, 2) \o appendInt(zone % 60, 2)
      [] std = "stdFracSecond0" -> <<".">> \o [i \in 1..(width - 1) |-> "0"]
      [] std = "stdFracSecond9" -> <<>>

\* Time.Format
RECURSIVE Format(_, _)
Format(t, layout) ==
    LET c == nextStdChunk(layout)
    IN  IF c.std = "" THEN c.prefix
        ELSE c.prefix \o FormatStd(t, c.std, c.width) \o Format(t, c.suffix)

isDigit(s, i) == Len(s) > i /\ s[i + 1] \in Digits

BadNum == [ok |-> FALSE, n |-> 0, rest |-> <<>>]

\* time.getnum: one or two digits, exactly two when fixed
getnum(s, fixed) ==
    IF ~isDigit(s, 0) THEN BadNum
    ELSE IF ~isDigit(s, 1)
         THEN IF fixed THEN BadNum
              ELSE [ok |-> TRUE, n |-> DigitVal(s[1]), rest |-> Drop(s, 1)]
         ELSE [ok |-> TRUE, n |-> DigitVal(s[1]) * 10 + DigitVal(s[2]),
               rest |-> Drop(s, 2)]

\* time.getnum3: up to three digits, exactly three when fixed
getnum3(s, fixed) ==
    LET i == IF ~isDigit(s, 0) THEN 0 ELSE IF ~isDigit(s, 1) THEN 1
             ELSE IF ~isDigit(s, 2) THEN 2 ELSE 3
    IN  IF i = 0 \/ (fixed /\ i # 3) THEN BadNum
        ELSE [ok |-> TRUE, n |-> Atoi(Take(s, i)), rest |-> Drop(s, i)]

\* time.atoi: an optional sign and digits, nothing after them
atoi(s) ==
    LET body == IF s # <<>> /\ Head(s) \in {"+", "-"} THEN Tail(s) ELSE s
    IN  IF body = <<>> \/ ~AllDigits(body) THEN [ok |-> FALSE, n |-> 0]
        ELSE [ok |-> TRUE,
              n  |-> IF Head(s) = "-" THEN 0 - Atoi(body) ELSE Atoi(body)]

\* time.lookup: index (from 1) of the first name that value starts with,
\* letter case ignored; 0 when there is none
lookup(tab, value) ==
    LET hits == {i \in 1..Len(tab) :
                    /\ Len(value) >= Len(tab[i])
                    /\ ToLower(Take(value, Len(tab[i]))) = ToLower(tab[i])}
    IN  IF hits = {} THEN 0 ELSE CHOOSE i \in hits : \A j \in hits : i <= j

\* time.cutspace
RECURSIVE cutspace(_)
cutspace(s) == IF s # <<>> /\ Head(s) = " " THEN cutspace(Tail(s)) ELSE s

\* time.skip: value without the literal prefix; a run of spaces of the
\* layout matches any run of spaces of the value
RECURSIVE skip(_, _)
skip(value, prefix) ==
    IF prefix = <<>> THEN [ok |-> TRUE, rest |-> value]
    ELSE IF Head(prefix) = " "
         THEN IF value # <<>> /\ Head(value) # " "
              THEN [ok |-> FALSE, rest |-> value]
              ELSE skip(cutspace(value), cutspace(prefix))
         ELSE IF value = <<>> \/ Head(value) # Head(prefix)
              THEN [ok |-> FALSE, rest |-> value]
              ELSE skip(Tail(value), Tail(prefix))

\* number of leading upper-case letters
RECURSIVE nUpper(_)
nUpper(s) == IF s # <<>> /\ Head(s) \in UpperChars THEN 1 + nUpper(Tail(s)) ELSE 0

\* time.parseTimeZone: length of the zone abbreviation value starts with, 0
\* when it has none. The special forms "ChST", "MeST" and "GMT+n" hold
\* characters no cell of the model has and are left out.
parseTimeZone(value) ==
    LET n == nUpper(IF Len(value) > 6 THEN Take(value, 6) ELSE value)
    IN  IF Len(value) < 3 THEN 0
        ELSE CASE n = 3 -> 3
               [] n = 4 -> IF value[4] = "T" \/ Take(value, 4) = <<"W","I","T","A">> THEN 4 ELSE 0
               [] n = 5 -> IF value[5] = "T" THEN 5 ELSE 0
               [] OTHER -> 0

\* the fields time.Parse collects while it walks the layout
ParseStart ==
    [ok |-> TRUE, year |-> 0, month |-> 0 - 1, day |-> 0 - 1, yday |-> 0 - 1,
     hour |-> 0, min |-> 0, sec |-> 0, pmSet |-> FALSE, amSet |-> FALSE,
     off |-> 0, value |-> <<>>]

Bad(acc) == [acc EXCEPT !.ok = FALSE]

\* the switch of time.parse: one layout element read from acc.value
ParseStd(acc, std, width) ==
    LET value == acc.value
        num(fixed) == getnum(value, fixed)
        setNum(field, r, inRange) ==
            IF r.ok /\ inRange THEN [acc EXCEPT ![field] = r.n, !.value = r.rest]
            ELSE Bad(acc)
    IN
    CASE std = "stdYear" ->
           IF Len(value) < 2 THEN Bad(acc)
           ELSE LET y == atoi(Take(value, 2))
                IN  IF ~y.ok THEN Bad(acc)
                    ELSE [acc EXCEPT !.year = IF y.n >= 69 THEN y.n + 1900
                                               ELSE y.n + 2000,
                                     !.value = Drop(value, 2)]
      [] std = "stdLongYear" ->
           IF Len(value) < 4 \/ ~isDigit(value, 0) THEN Bad(acc)
           ELSE LET y == atoi(Take(value, 4))
                IN  IF ~y.ok THEN Bad(acc)
                    ELSE [acc EXCEPT !.year = y.n, !.value = Drop(value, 4)]
      [] std = "stdMonth" ->
           LET m == lookup(shortMonthNames, value)
           IN  IF m = 0 THEN Bad(acc)
               ELSE [acc EXCEPT !.month = m, !.value = Drop(value, 3)]
      [] std = "stdLongMonth" ->
           LET m == lookup(longMonthNames, value)
           IN  IF m = 0 THEN Bad(acc)
               ELSE [acc EXCEPT !.month = m,
                                !.value = Drop(value, Len(longMonthNames[m]))]
      [] std \in {"stdNumMonth", "stdZeroMonth"} ->
           LET r == num(std = "stdZeroMonth")
           IN  setNum("month", r, ~(r.n <= 0 \/ 12 < r.n))
      [] std = "stdWeekDay" ->
           LET d == lookup(shortDayNames, value)
           IN  IF d = 0 THEN Bad(acc) ELSE [acc EXCEPT !.value = Drop(value, 3)]
      [] std = "stdLongWeekDay" ->
           LET d == lookup(longDayNames, value)
           IN  IF d = 0 THEN Bad(acc)
               ELSE [acc EXCEPT !.value = Drop(value, Len(longDayNames[d]))]
      [] std \in {"stdDay", "stdUnderDay", "stdZeroDay"} ->
           LET v == IF std = "stdUnderDay" /\ value # <<>> /\ Head(value) = " "
                    THEN Tail(value) ELSE value
               r == getnum(v, std = "stdZeroDay")
           IN  setNum("day", r, TRUE)
      [] std \in {"stdUnderYearDay", "stdZeroYearDay"} ->
           LET v1 == IF std = "stdUnderYearDay" /\ value # <<>> /\ Head(value) = " "
                     THEN Tail(value) ELSE value
               v2 == IF std = "stdUnderYearDay" /\ v1 # <<>> /\ Head(v1) = " "
                     THEN Tail(v1) ELSE v1
               r  == getnum3(v2, std = "stdZeroYearDay")
           IN  setNum("yday", r, TRUE)
      [] std = "stdHour" ->
           LET r == num(FALSE) IN setNum("hour", r, ~(r.n < 0 \/ 24 <= r.n))
      [] std \in {"stdHour12", "stdZeroHour12"} ->
           LET r == num(std = "stdZeroHour12")
           IN  setNum("hour", r, ~(r.n < 0 \/ 12 < r.n))
      [] std \in {"stdMinute", "stdZeroMinute"} ->
           LET r == num(std = "stdZeroMinute")
           IN  setNum("min", r, ~(r.n < 0 \/ 60 <= r.n))
      [] std \in {"stdSecond", "stdZeroSecond"} ->
           \* the fractional second of the input that the layout does not
           \* announce starts with "." or ",": not a character of the model
           LET r == num(std = "stdZeroSecond")
           IN  setNum("sec", r, ~(r.n < 0 \/ 60 <= r.n))
      [] std = "stdPM" ->
           IF Len(value) < 2 THEN Bad(acc)
           ELSE IF Take(value, 2) = <<"P","M">>
                THEN [acc EXCEPT !.pmSet = TRUE, !.value = Drop(value, 2)]
           ELSE IF Take(value, 2) = <<"A","M">>
                THEN [acc EXCEPT !.amSet = TRUE, !.value = Drop(value, 2)]
           ELSE Bad(acc)
      [] std = "stdpm" ->
           IF Len(value) < 2 THEN Bad(acc)
           ELSE IF Take(value, 2) = <<"p","m">>
                THEN [acc EXCEPT !.pmSet = TRUE, !.value = Drop(value, 2)]
           ELSE IF Take(value, 2) = <<"a","m">>
                THEN [acc EXCEPT !.amSet = TRUE, !.value = Drop(value, 2)]
           ELSE Bad(acc)
      [] std \in {"stdNumTZ", "stdISO8601ColonTZ"} ->
           IF std = "stdISO8601ColonTZ" /\ value # <<>> /\ Head(value) = "Z"
           THEN [acc EXCEPT !.off = 0, !.value = Tail(value)]
           ELSE LET colon == std = "stdISO8601ColonTZ"
                    need  == IF colon THEN 6 ELSE 5
                IN  IF Len(value) < need \/ (colon /\ value[4] # ":") THEN Bad(acc)
                    ELSE LET hr == getnum(SubSeq(value, 2, 3), TRUE)
                             mm == getnum(IF colon THEN SubSeq(value, 5, 6)
                                          ELSE SubSeq(value, 4, 5), TRUE)
                         IN  IF ~hr.ok \/ ~mm.ok \/ hr.n > 24 \/ mm.n > 60
                                \/ value[1] \notin {"+", "-"}
                             THEN Bad(acc)
                             ELSE [acc EXCEPT
                                     !.off = (IF value[1] = "-" THEN 0 - 1 ELSE 1)
                                             * (hr.n * 60 + mm.n) * 60,
                                     !.value = Drop(value, need)]
      [] std = "stdTZ" ->
           IF HasPrefix(value, <<"U","T","C">>)
           THEN [acc EXCEPT !.off = 0, !.value = Drop(value, 3)]
           ELSE LET n == parseTimeZone(value)
                IN  IF n = 0 THEN Bad(acc)
                    ELSE [acc EXCEPT !.off = 0, !.value = Drop(value, n)]
      [] std = "stdFracSecond0" ->
           IF Len(value) < width \/ value[1] \notin {".", ","}
              \/ ~AllDigits(SubSeq(value, 2, width))
           THEN Bad(acc)
           ELSE [acc EXCEPT !.value = Drop(value, width)]
      [] std = "stdFracSecond9" ->
           IF Len(value) < 2 \/ value[1] \notin {".", ","} \/ value[2] \notin Digits
           THEN acc
           ELSE LET n == CHOOSE k \in 1..Len(value) :
                           /\ AllDigits(SubSeq(value, 2, k))
                           /\ (k = Len(value) \/ value[k + 1] \notin Digits)
                IN  [acc EXCEPT !.value = Drop(value, n)]

\* the loop of time.parse: literal text skipped, elements read, until the
\* layout is used up; text left over in the value is an error
RECURSIVE ParseLoop(_, _)
ParseLoop(acc, layout) ==
    LET c == nextStdChunk(layout)
        s == skip(acc.value, c.prefix)
    IN  IF ~s.ok THEN Bad(acc)
        ELSE IF c.std = ""
             THEN IF s.rest # <<>> THEN Bad(acc) ELSE [acc EXCEPT !.value = <<>>]
             ELSE LET a == ParseStd([acc EXCEPT !.value = s.rest], c.std, c.width)
                  IN  IF ~a.ok THEN a ELSE ParseLoop(a, c.suffix)

\* the end of time.parse: the 12-hour clock, the day of the year and the
\* day of the month checked, the Time built
ParseFinish(acc) ==
    LET hour  == IF acc.pmSet /\ acc.hour < 12 THEN acc.hour + 12
                 ELSE IF acc.amSet /\ acc.hour = 12 THEN 0 ELSE acc.hour
        leapDay == acc.yday >= 0 /\ isLeap(acc.year) /\ acc.yday = 31 + 29
        yd    == IF acc.yday >= 0 /\ isLeap(acc.year) /\ acc.yday > 31 + 29
                 THEN acc.yday - 1 ELSE acc.yday
        ydBad == acc.yday >= 0 /\ ~leapDay /\ (yd < 1 \/ yd > 365)
        m0    == (yd - 1) \div 31 + 1
        ym    == IF leapDay THEN 2
                 ELSE IF daysBefore[m0 + 1] < yd THEN m0 + 1 ELSE m0
        ydd   == IF leapDay THEN 29 ELSE yd - daysBefore[ym]
        month == IF acc.yday >= 0 THEN ym
                 ELSE IF acc.month < 0 THEN 1 ELSE acc.month
        day   == IF acc.yday >= 0 THEN ydd
                 ELSE IF acc.day < 0 THEN 1 ELSE acc.day
        bad   == \/ ydBad
                 \/ /\ acc.yday >= 0
                    /\ \/ (acc.month >= 0 /\ acc.month # ym)
                       \/ (acc.day >= 0 /\ acc.day # ydd)
                 \/ day < 1 \/ day > daysIn(month, acc.year)
    IN  IF ~acc.ok \/ bad THEN [ok |-> FALSE, t |-> ZeroTime]
        ELSE [ok |-> TRUE,
              t  |-> Date(acc.year, month, day, hour, acc.min, acc.sec, acc.off)]

\* time.Parse(layout, value)
Parse(layout, value) ==
    ParseFinish(ParseLoop([ParseStart EXCEPT !.value = value], layout))

\* ------------------------------------------------------------------------
\* the layouts the reader names
\* ------------------------------------------------------------------------

Layout      == <<"0","1","/","0","2"," ","0","3",":","0","4",":","0","5","P","M"," ","'","0","6"," ","-","0","7","0","0">>
ANSIC       == <<"M","o","n"," ","J","a","n"," ","_","2"," ","1","5",":","0","4",":","0","5"," ","2","0","0","6">>
UnixDate    == <<"M","o","n"," ","J","a","n"," ","_","2"," ","1","5",":","0","4",":","0","5"," ","M","S","T"," ","2","0","0","6">>
RubyDate    == <<"M","o","n"," ","J","a","n"," ","0","2"," ","1","5",":","0","4",":","0","5"," ","-","0","7","0","0"," ","2","0","0","6">>
RFC822      == <<"0","2"," ","J","a","n"," ","0","6"," ","1","5",":","0","4"," ","M","S","T">>
RFC822Z     == <<"0","2"," ","J","a","n"," ","0","6"," ","1","5",":","0","4"," ","-","0","7","0","0">>
RFC850      == <<"M","o","n","d","a","y",","," ","0","2","-","J","a","n","-","0","6"," ","1","5",":","0","4",":","0","5"," ","M","S","T">>
RFC1123     == <<"M","o","n",","," ","0","2"," ","J","a","n"," ","2","0","0","6"," ","1","5",":","0","4",":","0","5"," ","M","S","T">>
RFC1123Z    == <<"M","o","n",","," ","0","2"," ","J","a","n"," ","2","0","0","6"," ","1","5",":","0","4",":","0","5"," ","-","0","7","0","0">>
RFC3339     == <<"2","0","0","6","-","0","1","-","0","2","T","1","5",":","0","4",":","0","5","Z","0","7",":","0","0">>
RFC3339Nano == <<"2","0","0","6","-","0","1","-","0","2","T","1","5",":","0","4",":","0","5",".","9","9","9","9","9","9","9","9","9","Z","0","7",":","0","0">>
Kitchen     == <<"3",":","0","4","P","M">>
Stamp       == <<"J","a","n"," ","_","2"," ","1","5",":","0","4",":","0","5">>
StampMilli  == <<"J","a","n"," ","_","2"," ","1","5",":","0","4",":","0","5",".","0","0","0">>
StampMicro  == <<"J","a","n"," ","_","2"," ","1","5",":","0","4",":","0","5",".","0","0","0","0","0","0">>
StampNano   == <<"J","a","n"," ","_","2"," ","1","5",":","0","4",":","0","5",".","0","0","0","0","0","0","0","0","0">>
DateTime    == <<"2","0","0","6","-","0","1","-","0","2"," ","1","5",":","0","4",":","0","5">>
DateOnly    == <<"2","0","0","6","-","0","1","-","0","2">>
TimeOnly    == <<"1","5",":","0","4",":","0","5">>

commonLayouts ==
    << Layout, ANSIC, UnixDate, RubyDate, RFC822, RFC822Z,
       RFC850, RFC1123, RFC1123Z, RFC3339, RFC3339Nano,
       Kitchen, Stamp, StampMilli, StampMicro, StampNano,
       DateTime, DateOnly, TimeOnly >>

\* ------------------------------------------------------------------------
\* errors (errors.go and the errors of the csv reader and of the file)
\* ------------------------------------------------------------------------

NoError == [kind |-> "nil", Field |-> <<>>, Value |-> <<>>, Type |-> "",
            Wrapped |-> FALSE]

\* &CSVError{Field, Value, Type, Wrapped}; Wrapped tells whether a cause is set
CSVError(field, value, type, wrapped) ==
    [kind |-> "CSVError", Field |-> field, Value |-> value, Type |-> type,
     Wrapped |-> wrapped]

\* io.EOF, as csv.Reader.Read returns it at the end of the input
EOF == [NoError EXCEPT !.kind = "EOF"]

\* *csv.ParseError{Err: csv.ErrFieldCount}
ErrFieldCount == [NoError EXCEPT !.kind = "ErrFieldCount"]

\* os.ErrClosed, wrapped in an *fs.PathError
ErrClosed == [NoError EXCEPT !.kind = "ErrClosed"]

\* ------------------------------------------------------------------------
\* the destination struct
\* ------------------------------------------------------------------------

\* The struct type the caller decodes into, in declaration order. It joins
\* the field forms of TestStruct and of the README's Person, Record and
\* Example: tagged fields of the basic kinds, a time with the default layout
\* and one with its own, a pointer, the "-" tag, a field without tag, a field
\* whose column the file lacks, an unexported field and a field of a kind
\* setFieldValue does not know.
\*   Name      string    `csv:"name"`
\*   Age       int
\*   Active    bool      `csv:"active"`
\*   BirthDate time.Time `csv:"birth_date"`
\*   UpdatedAt time.Time `csv:"updated_at,02/01/2006"`
\*   Score     *int      `csv:"score"`
\*   Ignored   string    `csv:"-"`
\*   Nick      string    `csv:"nick"`
\*   note      string    `csv:"name"`
\*   Count     uint      `csv:"count"`
\*   SeenAt    time.Time `csv:"seen,Jan 2, 2006"`
Field(name, tag, kind, ptr, exported) ==
    [Name |-> name, Tag |-> tag, kind |-> kind, ptr |-> ptr, exported |-> exported]

Fields ==
    << Field(<<"N","a","m","e">>,      <<"n","a","m","e">>,                  "string", FALSE, TRUE),
       Field(<<"A","g","e">>,       <<>>,                      "int",    FALSE, TRUE),
       Field(<<"A","c","t","i","v","e">>,    <<"a","c","t","i","v","e">>,                "bool",   FALSE, TRUE),
       Field(<<"B","i","r","t","h","D","a","t","e">>, <<"b","i","r","t","h","_","d","a","t","e">>,            "time",   FALSE, TRUE),
       Field(<<"U","p","d","a","t","e","d","A","t">>, <<"u","p","d","a","t","e","d","_","a","t",",","0","2","/","0","1","/","2","0","0","6">>, "time",   FALSE, TRUE),
       Field(<<"S","c","o","r","e">>,     <<"s","c","o","r","e">>,                 "int",    TRUE,  TRUE),
       Field(<<"I","g","n","o","r","e","d">>,   <<"-">>,                     "string", FALSE, TRUE),
       Field(<<"N","i","c","k">>,      <<"n","i","c","k">>,                  "string", FALSE, TRUE),
       Field(<<"n","o","t","e">>,      <<"n","a","m","e">>,                  "string", FALSE, FALSE),
       Field(<<"C","o","u","n","t">>,     <<"c","o","u","n","t">>,                 "uint",   FALSE, TRUE),
       Field(<<"S","e","e","n","A","t">>,    <<"s","e","e","n",",","J","a","n"," ","2",","," ","2","0","0","6">>,      "time",   FALSE, TRUE) >>

NumField == Len(Fields)

\* the zero value of a kind
ZeroOf(kind) ==
    CASE kind = "string" -> <<>>
      [] kind = "int"    -> 0
      [] kind = "uint"   -> 0
      [] kind = "bool"   -> FALSE
      [] kind = "time"   -> ZeroTime

\* a pointer field: nil, or the value it points to
NilPtr(kind) == [isNil |-> TRUE, val |-> ZeroOf(kind)]

PtrTo(v) == [isNil |-> FALSE, val |-> v]

\* the zero value of the struct (`var got TestStruct`)
ZeroRecord ==
    [i \in 1..NumField |->
        IF Fields[i].ptr THEN NilPtr(Fields[i].kind) ELSE ZeroOf(Fields[i].kind)]

\* ------------------------------------------------------------------------
\* the reader
\* ------------------------------------------------------------------------

\* CSVReader.headers: the header row NewCSVReader read; nothing writes it
\* afterwards. The columns come in another order than the fields, one column
\* ("extra") is named by no field, and no column is named "nick".
headers ==
    << <<"A","g","e">>, <<"n","a","m","e">>, <<"e","x","t","r","a">>, <<"a","c","t","i","v","e">>, <<"u","p","d","a","t","e","d","_","a","t">>, <<"b","i","r","t","h","_","d","a","t","e">>,
       <<"s","c","o","r","e">>, <<"c","o","u","n","t">>, <<"s","e","e","n">> >>

\* CSVReader.headerMap as NewCSVReader fills it: the position (from 0) of
\* each header; of two columns with one name the later one stays
headerMap ==
    [h \in {headers[i] : i \in 1..Len(headers)} |->
        (CHOOSE i \in 1..Len(headers) :
            headers[i] = h /\ \A j \in 1..Len(headers) : headers[j] = h => j <= i) - 1]

\* parseCSVTag with the layout NewCSVReader starts with as the time format
\* of a field that has none of its own, whatever the reader's layout is now
parseCSVTagInitial(field, timeLayout) ==
    IF field.Tag = <<>> THEN [name |-> field.Name, timeFormat |-> DateOnly]
    ELSE LET parts == Split(field.Tag, <<>>)
         IN  IF Len(parts) = 1 THEN [name |-> parts[1], timeFormat |-> DateOnly]
             ELSE [name |-> parts[1], timeFormat |-> parts[2]]

\* parseCSVTag: column name and time format of a field
parseCSVTag(field, timeLayout) ==
    IF field.Tag = <<>> THEN [name |-> field.Name, timeFormat |-> timeLayout]
    ELSE LET parts == Split(field.Tag, <<>>)
         IN  IF Len(parts) = 1 THEN [name |-> parts[1], timeFormat |-> timeLayout]
             ELSE [name |-> parts[1], timeFormat |-> parts[2]]

\* sanitizeTimeValue: the value rendered in the reader's layout, through the
\* first common layout that parses it. sanitizeFrom is the loop from the
\* i-th layout on, sanitizeParsed its body given what time.Parse returned.
RECURSIVE sanitizeFrom(_, _, _)
RECURSIVE sanitizeParsed(_, _, _, _)
sanitizeFrom(i, value, timeLayout) ==
    IF i > Len(commonLayouts) THEN [ok |-> FALSE, s |-> <<>>]
    ELSE sanitizeParsed(i, value, timeLayout, Parse(commonLayouts[i], value))

\* the loop body rendering the time in the common layout that parsed the
\* value rather than in the reader's layout
sanitizeParsedSameLayout(i, value, timeLayout, p) ==
    IF p.ok THEN [ok |-> TRUE, s |-> Format(p.t, commonLayouts[i])]
    ELSE sanitizeFrom(i + 1, value, timeLayout)

sanitizeParsed(i, value, timeLayout, p) ==
    IF p.ok THEN [ok |-> TRUE, s |-> Format(p.t, timeLayout)]
    ELSE sanitizeFrom(i + 1, value, timeLayout)

sanitizeTimeValue(value, timeLayout) ==
    IF value = <<>> THEN [ok |-> TRUE, s |-> <<>>]
    ELSE sanitizeFrom(1, value, timeLayout)

\* setTimeValue: [val, err], val the time the field holds afterwards.
\* timeError is the CSVError it returns; setTimeParsed is its end, given what
\* the second time.Parse returned; setTimeSanitized the step before, given
\* what sanitizeTimeValue returned; setTimeFirst all after the first
\* time.Parse, given what that returned.
timeError(cur, value, fieldName) ==
    [val |-> cur, err |-> CSVError(fieldName, value, "time.Time", TRUE)]

setTimeParsed(q, cur, value, fieldName) ==
    IF ~q.ok THEN timeError(cur, value, fieldName)
    ELSE [val |-> q.t, err |-> NoError]

setTimeSanitized(sv, cur, value, fieldName, timeLayout) ==
    IF ~sv.ok THEN timeError(cur, value, fieldName)
    ELSE setTimeParsed(Parse(timeLayout, sv.s), cur, value, fieldName)

setTimeFirst(p, cur, value, fieldName, timeLayout) ==
    IF p.ok THEN [val |-> p.t, err |-> NoError]
    ELSE setTimeSanitized(sanitizeTimeValue(value, timeLayout), cur, value,
                          fieldName, timeLayout)

setTimeValue(cur, value, timeFormat, fieldName, timeLayout) ==
    setTimeFirst(Parse(timeFormat, value), cur, value, fieldName, timeLayout)

\* setFieldValue below the pointer: the value of kind `kind` set from the text
setBasicValue(kind, cur, value, timeFormat, fieldNameLower, timeLayout) ==
    CASE kind = "time" ->
           setTimeValue(cur, value, timeFormat, fieldNameLower, timeLayout)
      [] kind = "string" -> [val |-> value, err |-> NoError]
      [] kind = "int" ->
           LET r == ParseInt(value)
           IN  IF ~r.ok
               THEN [val |-> cur, err |-> CSVError(fieldNameLower, value, "int", TRUE)]
               ELSE [val |-> r.val, err |-> NoError]
      [] kind = "bool" ->
           LET r == parseBool(value)
           IN  IF ~r.ok
               THEN [val |-> cur, err |-> CSVError(fieldNameLower, value, "bool", TRUE)]
               ELSE [val |-> r.val, err |-> NoError]
      [] OTHER ->
           [val |-> cur, err |-> CSVError(fieldNameLower, value, kind, FALSE)]

\* setFieldValue: [val, err], val the value the field holds afterwards. A nil
\* pointer is given a new zero value before the text is converted, and the
\* text is converted into what the pointer points to.
pointerElem(field, cur) ==
    IF ~field.ptr THEN cur
    ELSE IF cur.isNil THEN ZeroOf(field.kind) ELSE cur.val

fieldAfter(field, r) ==
    IF field.ptr THEN [val |-> PtrTo(r.val), err |-> r.err] ELSE r

setFieldValue(field, cur, value, timeFormat, timeLayout) ==
    fieldAfter(field,
               setBasicValue(field.kind, pointerElem(field, cur), value, timeFormat,
                             ToLower(field.Name), timeLayout))

\* the struct with field i as setFieldValue left it, and the error of
\* setFieldValue
fieldSet(i, dest, r) == [rec |-> [dest EXCEPT ![i] = r.val], err |-> r.err]

\* the loop body with a field whose column the file lacks ending the loop
\* with an error rather than being passed over
populateFieldStrict(i, dest, record, hmap, timeLayout) ==
    LET field == Fields[i]
        tag   == parseCSVTag(field, timeLayout)
        skip_ == [rec |-> dest, err |-> NoError]
    IN  IF ~field.exported THEN skip_
        ELSE IF tag.name = <<"-">> THEN skip_
        ELSE IF tag.name \notin DOMAIN hmap
             THEN [rec |-> dest,
                   err |-> CSVError(tag.name, <<"c","o","l","u","m","n"," ","n","o","t"," ","f","o","u","n","d">>, "", FALSE)]
        ELSE IF hmap[tag.name] >= Len(record)
             THEN [rec |-> dest,
                   err |-> CSVError(tag.name, <<"i","n","d","e","x"," ","o","u","t"," ","o","f"," ","r","a","n","g","e">>, "", FALSE)]
        ELSE LET value == TrimSpace(record[hmap[tag.name] + 1])
             IN  IF value = <<>> THEN skip_
                 ELSE fieldSet(i, dest,
                               setFieldValue(field, dest[i], value, tag.timeFormat,
                                             timeLayout))

\* the loop body with an empty cell setting the field to its zero value
\* rather than passing it over
populateFieldZeroing(i, dest, record, hmap, timeLayout) ==
    LET field == Fields[i]
        tag   == parseCSVTag(field, timeLayout)
        skip_ == [rec |-> dest, err |-> NoError]
    IN  IF ~field.exported THEN skip_
        ELSE IF tag.name = <<"-">> THEN skip_
        ELSE IF tag.name \notin DOMAIN hmap THEN skip_
        ELSE IF hmap[tag.name] >= Len(record)
             THEN [rec |-> dest,
                   err |-> CSVError(tag.name, <<"i","n","d","e","x"," ","o","u","t"," ","o","f"," ","r","a","n","g","e">>, "", FALSE)]
        ELSE LET value == TrimSpace(record[hmap[tag.name] + 1])
             IN  IF value = <<>>
                 THEN [rec |-> [dest EXCEPT ![i] = ZeroRecord[i]], err |-> NoError]
                 ELSE fieldSet(i, dest,
                               setFieldValue(field, dest[i], value, tag.timeFormat,
                                             timeLayout))

\* The body of the loop of populateStruct for field i: [rec, err], rec the
\* struct afterwards, err the error the loop returns with (NoError: the loop
\* goes on to the next field)
populateField(i, dest, record, hmap, timeLayout) ==
    LET field == Fields[i]
        tag   == parseCSVTag(field, timeLayout)
        skip_ == [rec |-> dest, err |-> NoError]
    IN  IF ~field.exported THEN skip_
        ELSE IF tag.name = <<"-">> THEN skip_
        ELSE IF tag.name \notin DOMAIN hmap THEN skip_
        ELSE IF hmap[tag.name] >= Len(record)
             THEN [rec |-> dest,
                   err |-> CSVError(tag.name, <<"i","n","d","e","x"," ","o","u","t"," ","o","f"," ","r","a","n","g","e">>, "", FALSE)]
        ELSE LET value == TrimSpace(record[hmap[tag.name] + 1])
             IN  IF value = <<>> THEN skip_
                 ELSE fieldSet(i, dest,
                               setFieldValue(field, dest[i], value, tag.timeFormat,
                                             timeLayout))

\* the loop of populateStruct from field i on: [rec, err, idx], idx the field
\* the loop returned an error at (0 when it reached the end). populateNext
\* is the loop after the body for field i, given what the body made.
RECURSIVE populateFrom(_, _, _, _, _)
RECURSIVE populateNext(_, _, _, _, _)
populateFrom(i, dest, record, hmap, timeLayout) ==
    IF i > NumField THEN [rec |-> dest, err |-> NoError, idx |-> 0]
    ELSE populateNext(i, populateField(i, dest, record, hmap, timeLayout), record,
                      hmap, timeLayout)

populateNext(i, f, record, hmap, timeLayout) ==
    IF f.err # NoError THEN [rec |-> f.rec, err |-> f.err, idx |-> i]
    ELSE populateFrom(i + 1, f.rec, record, hmap, timeLayout)

\* populateStruct giving the struct back as it was passed when a field fails
populateStructRollback(dest, record, hmap, timeLayout) ==
    LET p == populateFrom(1, dest, record, hmap, timeLayout)
    IN  IF p.err # NoError THEN [p EXCEPT !.rec = dest] ELSE p

populateStruct(dest, record, hmap, timeLayout) ==
    populateFrom(1, dest, record, hmap, timeLayout)

\* ------------------------------------------------------------------------
\* inputs
\* ------------------------------------------------------------------------

\* most data rows of a file
MaxRows == 2

\* the cells of a row stand under the columns
\*   Age, name, extra, active, updated_at, birth_date, score, count, seen
\* the data rows a file is made of; the state names a row by its place here
DataRows ==
    << << <<"3","0">>, <<" ","A","n","n"," ">>, <<"z","z">>, <<"t","r","u","e">>, <<"0","3","/","0","4","/","2","0","2","4">>, <<"2","0","2","4","-","0","1","-","0","2">>, <<>>, <<>>, <<>> >>,
       << <<" ">>, <<"B","o">>, <<>>, <<" ","Y","E","S">>, <<>>, <<"\t"," ">>, <<>>, <<"5">>, <<>> >>,
       << <<"-","4">>, <<"D","i">>, <<>>, <<"m","a","y","b","e">>, <<>>, <<"2","0","2","2","-","0","3","-","0","4">>, <<"9">>, <<>>, <<>> >>,
       << <<"+","5">>, <<"E","d">>, <<"k">>, <<"0">>, <<"2","0","2","4","-","0","1","-","0","2","T","0","3",":","0","4",":","0","5","+","0","7",":","0","0">>, <<>>, <<"7","x">>, <<>>, <<>> >>,
       << <<"1">>, <<"G","u","s">> >>,
       << <<"6">>, <<"F","l","o">>, <<>>, <<"Y">>, <<"2","0","2","4","-","0","1","-","0","2">>, <<"0","3","/","0","4","/","2","0","2","4">>, <<"7">>, <<>>, <<>> >>,
       << <<"7">>, <<"H","a","l">>, <<>>, <<"n","o">>, <<>>, <<>>, <<>>, <<>>, <<"M","a","r"," ","4",","," ","2","0","2","4">> >> >>

RECURSIVE SeqsUpTo(_, _)
SeqsUpTo(S, n) ==
    IF n = 0 THEN {<<>>}
    ELSE LET shorter == SeqsUpTo(S, n - 1)
         IN  shorter \cup {Append(q, x) : q \in shorter, x \in S}

\* the files: up to MaxRows data rows under the header
Files == SeqsUpTo(1..Len(DataRows), MaxRows)

\* the fields of the row at place p of the file
RowAt(file, p) == DataRows[file[p]]

\* the layouts a caller passes to SetTimeLayout
LayoutArgs ==
    { <<>>, DateOnly, <<"0","2","/","0","1","/","2","0","0","6">>, <<"2","0","0","6","-","0","1","-","0","2"," ","M","S","T">>, <<"i","n","v","a","l","i","d","-","f","o","r","m","a","t">>,
      <<"1","2","0","0","6","-","0","1","-","0","2">>, <<"2","0","0","6","-","0","1","-","0","2"," ","1","5"," ","3">> }

\* what a caller passes to ReadNext as dest other than a pointer to the
\* struct: nil, or a pointer to something that is no struct
BadDests == {"nil", "nonstruct"}

\* ------------------------------------------------------------------------
\* state
\* ------------------------------------------------------------------------

VARIABLES
    rows,        \* the data rows of the file behind CSVReader.reader
    pos,         \* the row CSVReader.reader reads next (from 1)
    fileClosed,  \* whether CSVReader.file has been closed
    timeLayout,  \* CSVReader.timeLayout
    rec,         \* the caller's struct
    last,        \* the last call: its arguments, the state before, its result
    mu,          \* CSVReader.mu: the goroutine that holds its Lock, or "free"
    pc,          \* where each goroutine sharing the reader is in its call
    layoutArg,   \* the layout each goroutine calling SetTimeLayout passed
    frame,       \* the locals of the goroutine in ReadNext
    seen,        \* what a load of r.timeLayout in progress may come back with
    ret          \* what the call of each goroutine returned

\* the goroutines sharing one reader: two that call SetTimeLayout, one that
\* calls ReadNext
Setters == {"set1", "set2"}

Goroutines == Setters \cup {"read"}

goroutines == <<mu, pc, layoutArg, frame, seen, ret>>

vars == <<rows, pos, fileClosed, timeLayout, rec, last, mu, pc, layoutArg,
          frame, seen, ret>>

\* the locals of ReadNext, populateStruct and setTimeValue: record, the loop
\* index (from 1), tag.timeFormat, and sanitizedValue
Frame(record, i, timeFormat, sanitizedValue) ==
    [record |-> record, i |-> i, timeFormat |-> timeFormat,
     sanitizedValue |-> sanitizedValue]

Call(op, arg, dest, row, err, idx) ==
    [op |-> op, arg |-> arg, dest |-> dest, row |-> row, err |-> err, idx |-> idx,
     pre |-> rec, preLayout |-> timeLayout, prePos |-> pos,
     preClosed |-> fileClosed]

\* NewCSVReader: the file opened, the header row read, the default layout
Init ==
    /\ rows \in Files
    /\ pos = 1
    /\ fileClosed = FALSE
    /\ timeLayout = DateOnly
    /\ rec = ZeroRecord
    /\ last = [op |-> "NewCSVReader", arg |-> <<>>, dest |-> "", row |-> 0,
               err |-> NoError, idx |-> 0, pre |-> ZeroRecord,
               preLayout |-> DateOnly, prePos |-> 1, preClosed |-> FALSE]
    /\ mu = "free"
    /\ pc = [g \in Goroutines |-> "idle"]
    /\ layoutArg = [g \in Setters |-> <<>>]
    /\ frame = Frame(<<>>, 0, <<>>, <<>>)
    /\ seen = {}
    /\ ret = [g \in Goroutines |-> NoError]

\* ------------------------------------------------------------------------
\* operations
\* ------------------------------------------------------------------------

\* ValidateTimeLayout: TRUE when it returns nil. sameFormatted is its end,
\* given what time.Parse returned for the formatted reference time;
\* roundTrip the part from time.Parse on, given the formatted reference time.
sameFormatted(layout, formatted, parsed) ==
    IF ~parsed.ok THEN FALSE
    ELSE formatted = Format(parsed.t, layout)

roundTrip(layout, formatted) ==
    sameFormatted(layout, formatted, Parse(layout, formatted))

ValidateTimeLayout(layout) ==
    IF layout = <<>> THEN FALSE
    ELSE LET hasYear  == Contains(layout, <<"2","0","0","6">>)
             hasMonth == Contains(layout, <<"0","1">>) \/ Contains(layout, <<"J","a","n">>)
             hasDay   == Contains(layout, <<"0","2">>)
         IN  IF ~hasYear \/ ~hasMonth \/ ~hasDay THEN FALSE
             ELSE roundTrip(layout, Format(referenceTime, layout))

\* SetTimeLayout with the layout stored before it is validated
SetTimeLayoutUnchecked(layout) ==
    /\ timeLayout' = layout
    /\ last' = Call("SetTimeLayout", layout, "", 0,
                     IF ~ValidateTimeLayout(layout)
                     THEN CSVError(<<"t","i","m","e","L","a","y","o","u","t">>, layout, "string", TRUE)
                     ELSE NoError, 0)
    /\ UNCHANGED <<rows, pos, fileClosed, rec>>
    /\ UNCHANGED goroutines

\* SetTimeLayout(layout), called with no other call on the reader running:
\* the lock is free before and after
SetTimeLayout(layout) ==
    /\ IF ~ValidateTimeLayout(layout)
       THEN /\ timeLayout' = timeLayout
            /\ last' = Call("SetTimeLayout", layout, "", 0,
                             CSVError(<<"t","i","m","e","L","a","y","o","u","t">>, layout, "string", TRUE), 0)
       ELSE /\ timeLayout' = layout
            /\ last' = Call("SetTimeLayout", layout, "", 0, NoError, 0)
    /\ UNCHANGED <<rows, pos, fileClosed, rec>>
    /\ UNCHANGED goroutines

\* Read with a row of the wrong length left in the input when it is refused
ReadKeepsBadRow(newline) ==
    IF fileClosed /\ (pos > Len(rows) \/ (pos = Len(rows) /\ ~newline))
    THEN [record |-> <<>>, row |-> 0, err |-> ErrClosed, pos |-> Len(rows) + 1]
    ELSE IF pos > Len(rows)
    THEN [record |-> <<>>, row |-> 0, err |-> EOF, pos |-> pos]
    ELSE IF Len(RowAt(rows, pos)) # Len(headers)
    THEN [record |-> RowAt(rows, pos), row |-> pos, err |-> ErrFieldCount,
          pos |-> pos]
    ELSE [record |-> RowAt(rows, pos), row |-> pos, err |-> NoError,
          pos |-> pos + 1]

\* csv.Reader.Read of the reader NewCSVReader made: [record, row, err, pos],
\* row the place in the file of the record read (0: none).
\* FieldsPerRecord is 0 in csv.NewReader, so the header row sets it and a
\* data row of another length comes back with ErrFieldCount.
\* The reader holds the file in a 4096 byte buffer that the read of the
\* header filled with the whole of a file as small as these. Once the file
\* is closed the buffered rows are still returned, but what needs another
\* read of the file is the error of the closed file: the end of the input,
\* and a last row that no newline ends (newline: whether one does).
Read(newline) ==
    IF fileClosed /\ (pos > Len(rows) \/ (pos = Len(rows) /\ ~newline))
    THEN [record |-> <<>>, row |-> 0, err |-> ErrClosed, pos |-> Len(rows) + 1]
    ELSE IF pos > Len(rows)
    THEN [record |-> <<>>, row |-> 0, err |-> EOF, pos |-> pos]
    ELSE IF Len(RowAt(rows, pos)) # Len(headers)
    THEN [record |-> RowAt(rows, pos), row |-> pos, err |-> ErrFieldCount,
          pos |-> pos + 1]
    ELSE [record |-> RowAt(rows, pos), row |-> pos, err |-> NoError,
          pos |-> pos + 1]

\* ReadNext(dest) with dest a pointer to the struct. fresh: the caller
\* passes a new zero struct rather than the one it passed before.
ReadNext(fresh, newline) ==
    LET r      == Read(newline)
        caller == IF fresh THEN ZeroRecord ELSE rec
    IN  \E p \in {IF r.err # NoError THEN [rec |-> caller, err |-> r.err, idx |-> 0]
                  ELSE populateStruct(caller, r.record, headerMap, timeLayout)} :
            /\ pos' = r.pos
            /\ rec' = p.rec
            /\ last' = [Call("ReadNext", <<>>, "struct", r.row, p.err, p.idx)
                           EXCEPT !.pre = caller]
            /\ UNCHANGED <<rows, fileClosed, timeLayout>>
            /\ UNCHANGED goroutines

\* ReadNext(dest) with dest no pointer to a struct: nil (or no pointer), or
\* a pointer to something else. The row is read before dest is looked at.
ReadNextBadDest(dest, newline) ==
    LET r == Read(newline)
    IN  /\ pos' = r.pos
        /\ last' = Call("ReadNext", <<>>, dest, r.row,
                         IF r.err # NoError THEN r.err
                         ELSE IF dest = "nil"
                              THEN CSVError(<<"d","e","s","t","i","n","a","t","i","o","n">>, <<"<","n","i","l",">">>, "pointer", FALSE)
                              ELSE CSVError(<<"d","e","s","t","i","n","a","t","i","o","n">>, <<"*","i","n","t">>, "struct", FALSE),
                         0)
        /\ UNCHANGED <<rows, fileClosed, timeLayout, rec>>
        /\ UNCHANGED goroutines

\* Close that returns nil on a file closed already
CloseQuiet ==
    /\ fileClosed' = TRUE
    /\ last' = Call("Close", <<>>, "", 0, NoError, 0)
    /\ UNCHANGED <<rows, pos, timeLayout, rec>>
    /\ UNCHANGED goroutines

\* Close: the file closed; os.File.Close returns ErrClosed when the file is
\* closed already
Close ==
    /\ fileClosed' = TRUE
    /\ last' = Call("Close", <<>>, "", 0,
                     IF fileClosed THEN ErrClosed ELSE NoError, 0)
    /\ UNCHANGED <<rows, pos, timeLayout, rec>>
    /\ UNCHANGED goroutines

\* whether a newline ends the last row matters to one read only
Newlines == IF fileClosed /\ pos = Len(rows) THEN BOOLEAN ELSE {TRUE}

Next ==
    \/ \E layout \in LayoutArgs : SetTimeLayout(layout)
    \/ \E fresh \in (IF rec = ZeroRecord THEN {TRUE} ELSE BOOLEAN),
          newline \in Newlines : ReadNext(fresh, newline)
    \/ \E dest \in BadDests, newline \in Newlines : ReadNextBadDest(dest, newline)
    \/ Close

Spec == Init /\ [][Next]_vars

\* ------------------------------------------------------------------------
\* one reader shared by goroutines
\* ------------------------------------------------------------------------

\* Each goroutine makes one call. SetTimeLayout takes r.mu.Lock() around its
\* store of r.timeLayout; parseCSVTag, sanitizeTimeValue and setTimeValue
\* load r.timeLayout and take no lock. A store and a load of the string are
\* not atomic, so each is two steps: begun, ended.

\* the layouts the goroutines pass to SetTimeLayout
RacedLayouts == { <<"0","2","/","0","1","/","2","0","0","6">>, <<"2","0","0","6","-","0","1","-","0","2"," ","M","S","T">>, <<"i","n","v","a","l","i","d","-","f","o","r","m","a","t">> }

\* the files read while the layout is being set: none, row 1, row 4 alone
RacedFiles == { <<>>, <<1>>, <<4>> }

InitMu == Init /\ rows \in RacedFiles

\* the goroutines whose store of r.timeLayout is in progress
Storing == {g \in Setters : pc[g] = "storing"}

\* whether a load of r.timeLayout is in progress
Loading == pc["read"] \in {"loadTag", "loadSanitize", "loadParse"}

\* what a load that begins now may find: the string stored, and those being
\* stored
Visible == {timeLayout} \cup {layoutArg[g] : g \in Storing}

\* a string header read while it is written: the data pointer of a with the
\* length of b. Bytes past the end of a are whatever follows it in memory.
Torn(a, b) ==
    IF Len(b) <= Len(a) THEN SubSeq(a, 1, Len(b))
    ELSE a \o [k \in 1..(Len(b) - Len(a)) |-> "?"]

\* what a load comes back with, given the strings the location held or was
\* given while the load went on: with one string, that string; with more
\* (a data race), any of them or a mix of two
Outcomes(S) == S \cup {Torn(a, b) : a \in S, b \in S}

\* the call of goroutine g returns err
Return(g, err) ==
    /\ pc' = [pc EXCEPT ![g] = "returned"]
    /\ ret' = [ret EXCEPT ![g] = err]

\* SetTimeLayout(layout) up to r.mu.Lock()
SetTimeLayoutCall(g, layout) ==
    /\ pc[g] = "idle"
    /\ IF ~ValidateTimeLayout(layout)
       THEN /\ Return(g, CSVError(<<"t","i","m","e","L","a","y","o","u","t">>, layout, "string", TRUE))
            /\ UNCHANGED layoutArg
       ELSE /\ pc' = [pc EXCEPT ![g] = "Lock"]
            /\ layoutArg' = [layoutArg EXCEPT ![g] = layout]
            /\ UNCHANGED ret
    /\ UNCHANGED <<rows, pos, fileClosed, timeLayout, rec, last, mu, frame, seen>>

\* r.mu.Lock(): waits until no goroutine holds the lock
Lock(g) ==
    /\ pc[g] = "Lock"
    /\ mu = "free"
    /\ mu' = g
    /\ pc' = [pc EXCEPT ![g] = "store"]
    /\ UNCHANGED <<rows, pos, fileClosed, timeLayout, rec, last, layoutArg,
                   frame, seen, ret>>

\* r.timeLayout = layout begins; a load in progress may see the new string
StoreBegin(g) ==
    /\ pc[g] = "store"
    /\ pc' = [pc EXCEPT ![g] = "storing"]
    /\ seen' = IF Loading THEN seen \cup {layoutArg[g]} ELSE seen
    /\ UNCHANGED <<rows, pos, fileClosed, timeLayout, rec, last, mu, layoutArg,
                   frame, ret>>

\* r.timeLayout = layout ends
StoreEnd(g) ==
    /\ pc[g] = "storing"
    /\ timeLayout' = layoutArg[g]
    /\ pc' = [pc EXCEPT ![g] = "Unlock"]
    /\ UNCHANGED <<rows, pos, fileClosed, rec, last, mu, layoutArg, frame,
                   seen, ret>>

\* r.mu.Unlock(); return nil
Unlock(g) ==
    /\ pc[g] = "Unlock"
    /\ mu' = "free"
    /\ Return(g, NoError)
    /\ UNCHANGED <<rows, pos, fileClosed, timeLayout, rec, last, layoutArg,
                   frame, seen>>

\* ReadNext(dest), dest a pointer to the struct, up to the loop of
\* populateStruct
ReadNextCall ==
    /\ pc["read"] = "idle"
    /\ \E r \in {Read(TRUE)} :
           /\ pos' = r.pos
           /\ IF r.err # NoError
              THEN /\ Return("read", r.err)
                   /\ UNCHANGED frame
              ELSE /\ pc' = [pc EXCEPT !["read"] = "loop"]
                   /\ frame' = Frame(r.record, 1, <<>>, <<>>)
                   /\ UNCHANGED ret
    /\ UNCHANGED <<rows, fileClosed, timeLayout, rec, last, mu, layoutArg, seen>>

\* whether parseCSVTag loads r.timeLayout for the field
ReadsLayout(field) == field.Tag = <<>> \/ Len(Split(field.Tag, <<>>)) = 1

\* the head of the loop of populateStruct, up to the load of r.timeLayout in
\* parseCSVTag if there is one
LoopField ==
    /\ pc["read"] = "loop"
    /\ IF frame.i > NumField
       THEN /\ Return("read", NoError)
            /\ UNCHANGED <<frame, seen>>
       ELSE IF ~Fields[frame.i].exported
       THEN /\ frame' = [frame EXCEPT !.i = @ + 1]
            /\ UNCHANGED <<pc, ret, seen>>
       ELSE IF ReadsLayout(Fields[frame.i])
       THEN /\ pc' = [pc EXCEPT !["read"] = "loadTag"]
            /\ seen' = Visible
            /\ UNCHANGED <<frame, ret>>
       ELSE /\ pc' = [pc EXCEPT !["read"] = "bind"]
            /\ frame' = [frame EXCEPT
                           !.timeFormat = parseCSVTag(Fields[frame.i], <<>>).timeFormat]
            /\ UNCHANGED <<ret, seen>>
    /\ UNCHANGED <<rows, pos, fileClosed, timeLayout, rec, last, mu, layoutArg>>

\* the load of r.timeLayout in parseCSVTag ends
LoadedTag ==
    /\ pc["read"] = "loadTag"
    /\ \E v \in Outcomes(seen) :
           frame' = [frame EXCEPT
                       !.timeFormat = parseCSVTag(Fields[frame.i], v).timeFormat]
    /\ pc' = [pc EXCEPT !["read"] = "bind"]
    /\ seen' = {}
    /\ UNCHANGED <<rows, pos, fileClosed, timeLayout, rec, last, mu, layoutArg,
                   ret>>

\* whether the field of the loop is bound to a column whose cell has text
HasText(name) ==
    /\ name # <<"-">>
    /\ name \in DOMAIN headerMap
    /\ headerMap[name] < Len(frame.record)
    /\ TrimSpace(frame.record[headerMap[name] + 1]) # <<>>

\* value, for a field that has one
Value(name) == TrimSpace(frame.record[headerMap[name] + 1])

\* whether setTimeValue comes to a load of r.timeLayout: a time field whose
\* value does not parse in tag.timeFormat and parses in a common layout
Falls(field, value) ==
    /\ field.kind = "time"
    /\ ~Parse(frame.timeFormat, value).ok
    /\ sanitizeTimeValue(value, <<>>).ok

\* the end of the loop body, given the struct and the error it made
FieldDone(f) ==
    /\ rec' = f.rec
    /\ IF f.err # NoError
       THEN /\ Return("read", f.err)
            /\ UNCHANGED frame
       ELSE /\ pc' = [pc EXCEPT !["read"] = "loop"]
            /\ frame' = [frame EXCEPT !.i = @ + 1]
            /\ UNCHANGED ret

\* the loop body after parseCSVTag, up to the load of r.timeLayout in
\* sanitizeTimeValue if it comes to one. A body that comes to none has
\* tag.timeFormat as the only layout it uses.
BindField ==
    /\ pc["read"] = "bind"
    /\ \E name \in {parseCSVTag(Fields[frame.i], <<>>).name} :
           IF HasText(name) /\ Falls(Fields[frame.i], Value(name))
           THEN /\ pc' = [pc EXCEPT !["read"] = "loadSanitize"]
                /\ seen' = Visible
                /\ UNCHANGED <<rec, frame, ret>>
           ELSE /\ FieldDone(populateField(frame.i, rec, frame.record, headerMap,
                                           frame.timeFormat))
                /\ UNCHANGED seen
    /\ UNCHANGED <<rows, pos, fileClosed, timeLayout, last, mu, layoutArg>>

\* the load of r.timeLayout in sanitizeTimeValue ends, and that in
\* setTimeValue begins
LoadedSanitize ==
    /\ pc["read"] = "loadSanitize"
    /\ \E v \in Outcomes(seen) :
           frame' = [frame EXCEPT
                       !.sanitizedValue =
                           sanitizeTimeValue(
                               Value(parseCSVTag(Fields[frame.i], <<>>).name), v).s]
    /\ pc' = [pc EXCEPT !["read"] = "loadParse"]
    /\ seen' = Visible
    /\ UNCHANGED <<rows, pos, fileClosed, timeLayout, rec, last, mu, layoutArg,
                   ret>>

\* the load of r.timeLayout in setTimeValue ends; the rest of the loop body
LoadedParse ==
    /\ pc["read"] = "loadParse"
    /\ \E v \in Outcomes(seen) :
           FieldDone(fieldSet(frame.i, rec,
                              setTimeParsed(Parse(v, frame.sanitizedValue),
                                            rec[frame.i],
                                            Value(parseCSVTag(Fields[frame.i], <<>>).name),
                                            ToLower(Fields[frame.i].Name))))
    /\ seen' = {}
    /\ UNCHANGED <<rows, pos, fileClosed, timeLayout, last, mu, layoutArg>>

NextMu ==
    \/ \E g \in Setters, layout \in RacedLayouts : SetTimeLayoutCall(g, layout)
    \/ \E g \in Setters : Lock(g)
    \/ \E g \in Setters : StoreBegin(g)
    \/ \E g \in Setters : StoreEnd(g)
    \/ \E g \in Setters : Unlock(g)
    \/ ReadNextCall
    \/ LoopField
    \/ LoadedTag
    \/ BindField
    \/ LoadedSanitize
    \/ LoadedParse

SpecMu == InitMu /\ [][NextMu]_vars

\* ------------------------------------------------------------------------
\* what the properties speak of
\* ------------------------------------------------------------------------

\* the text of a tag up to its first comma, and the text after it
RECURSIVE BeforeComma(_)
BeforeComma(s) ==
    IF s = <<>> \/ Head(s) = "," THEN <<>>
    ELSE <<Head(s)>> \o BeforeComma(Tail(s))

RECURSIVE AfterComma(_)
AfterComma(s) ==
    IF s = <<>> THEN <<>>
    ELSE IF Head(s) = "," THEN Tail(s) ELSE AfterComma(Tail(s))

HasComma(s) == \E k \in 1..Len(s) : s[k] = ","

\* the column field i asks for: the name of its tag, else its own name
ColumnName(i) ==
    IF Fields[i].Tag = <<>> THEN Fields[i].Name ELSE BeforeComma(Fields[i].Tag)

HasColumn(i) == \E c \in 1..Len(headers) : headers[c] = ColumnName(i)

\* the place (from 1) of the column of field i in a row
ColumnIndex(i) == CHOOSE c \in 1..Len(headers) : headers[c] = ColumnName(i)

\* field i is bound to a column of the file
Bound(i) == Fields[i].exported /\ ColumnName(i) # <<"-">> /\ HasColumn(i)

\* the last call was a ReadNext into the struct that read a row
ReadRow == last.op = "ReadNext" /\ last.dest = "struct" /\ last.row # 0

\* ... and the row went through populateStruct
Bind == ReadRow /\ last.err.kind \in {"nil", "CSVError"}

\* the row the last call read, and its trimmed cell for field i
LastRow == RowAt(rows, last.row)

Cell(i) == TrimSpace(LastRow[ColumnIndex(i)])

\* the value a decimal text with an optional sign stands for
SignedValue(s) ==
    IF Head(s) = "-" THEN 0 - Atoi(Tail(s))
    ELSE IF Head(s) = "+" THEN Atoi(Tail(s)) ELSE Atoi(s)

TrueForms == { <<"t","r","u","e">>, <<"1">>, <<"y","e","s">>, <<"y">> }

FalseForms == { <<"f","a","l","s","e">>, <<"0">>, <<"n","o">>, <<"n">> }

\* ------------------------------------------------------------------------
\* C1
\* ------------------------------------------------------------------------

\* C1: after a ReadNext that returns nil, every bound field whose trimmed
\* cell is not empty holds the cell coerced to the kind of the field: a string
\* field the trimmed cell itself, an int field (behind its pointer, if it is
\* one) the signed decimal value of the cell, a bool field TRUE for a cell
\* that is, in any case of letters, one of true, 1, yes, y and FALSE for one
\* of false, 0, no, n. A bool cell that is none of these makes ReadNext fail:
\* it returns at that field or an earlier one, and the error it returns at
\* that field has Type "bool"; no cell that is one of the forms does.
C1_CoercedValues ==
    Bind =>
        \A i \in 1..NumField :
            (Bound(i) /\ Cell(i) # <<>>) =>
                /\ (last.err = NoError /\ Fields[i].kind = "string") =>
                       rec[i] = Cell(i)
                /\ (last.err = NoError /\ Fields[i].kind = "int") =>
                       IF Fields[i].ptr
                       THEN rec[i] = [isNil |-> FALSE, val |-> SignedValue(Cell(i))]
                       ELSE rec[i] = SignedValue(Cell(i))
                /\ (last.err = NoError /\ Fields[i].kind = "bool") =>
                       \/ ToLower(Cell(i)) \in TrueForms /\ rec[i] = TRUE
                       \/ ToLower(Cell(i)) \in FalseForms /\ rec[i] = FALSE
                /\ (Fields[i].kind = "bool"
                       /\ ToLower(Cell(i)) \notin TrueForms \cup FalseForms) =>
                       /\ last.idx \in 1..i
                       /\ last.idx = i =>
                              last.err.kind = "CSVError" /\ last.err.Type = "bool"
                /\ (Fields[i].kind = "bool" /\ last.idx = i) =>
                       ToLower(Cell(i)) \notin TrueForms \cup FalseForms

\* a row read with nil returned whose bool cell is "Y", with the string, the
\* int, the bool and the *int field set from it
C1_Witness ==
    /\ Bind /\ last.err = NoError
    /\ Cell(1) = <<"F","l","o">> /\ rec[1] = <<"F","l","o">>
    /\ Cell(2) = <<"6">> /\ rec[2] = 6
    /\ Cell(3) = <<"Y">> /\ rec[3] = TRUE
    /\ Cell(6) = <<"7">> /\ rec[6] = PtrTo(7)

\* ------------------------------------------------------------------------
\* C2
\* ------------------------------------------------------------------------

\* C2 as stated: when ReadNext has bound a row, a bound field whose trimmed
\* cell is empty is not the field the call failed at, and it holds the zero
\* value of its type (nil for a pointer), whatever struct the caller passed.
C2_EmptyCellDefault ==
    Bind =>
        \A i \in 1..NumField :
            (Bound(i) /\ Cell(i) = <<>>) =>
                last.idx # i /\ rec[i] = ZeroRecord[i]

\* C2, amended: when ReadNext has bound a row, a bound field whose trimmed
\* cell is empty is not the field the call failed at, and it holds what it
\* held in the struct the caller passed: the zero value of its type when
\* that struct was a new one, the value of an earlier row when the caller
\* passed the struct of an earlier call.
C2_EmptyCellUntouched ==
    Bind =>
        \A i \in 1..NumField :
            (Bound(i) /\ Cell(i) = <<>>) =>
                /\ last.idx # i
                /\ rec[i] = last.pre[i]
                /\ last.pre = ZeroRecord => rec[i] = ZeroRecord[i]

\* a row bound into the struct of an earlier call: a field whose cell is
\* empty still holds the value of the earlier row
C2_Witness ==
    /\ Bind
    /\ \E i \in 1..NumField :
           /\ Bound(i) /\ Cell(i) = <<>>
           /\ last.pre[i] # ZeroRecord[i]
           /\ rec[i] = last.pre[i]

\* ------------------------------------------------------------------------
\* C3
\* ------------------------------------------------------------------------

\* the reference time rendered in the layout parses back in the layout, and
\* what was parsed renders the same again
ParsesBack(layout) ==
    LET formatted == Format(referenceTime, layout)
        parsed    == Parse(layout, formatted)
    IN  parsed.ok /\ Format(parsed.t, layout) = formatted

\* C3: a SetTimeLayout(L), after whatever calls went before, returns a
\* CSVError and leaves timeLayout as it was before the call when L is empty,
\* has no "2006", has neither "01" nor "Jan", has no "02", or does not round
\* trip on the reference time; it returns nil and timeLayout is L otherwise.
C3_ValidateBeforeCommit ==
    last.op = "SetTimeLayout" =>
        LET L == last.arg
        IN  IF \/ L = <<>>
               \/ ~Contains(L, <<"2","0","0","6">>)
               \/ ~(Contains(L, <<"0","1">>) \/ Contains(L, <<"J","a","n">>))
               \/ ~Contains(L, <<"0","2">>)
               \/ ~ParsesBack(L)
            THEN /\ last.err.kind = "CSVError"
                 /\ timeLayout = last.preLayout
            ELSE /\ last.err = NoError
                 /\ timeLayout = L

\* a layout with all three parts that does not parse back, refused after
\* another layout was set: the layout set before stays
C3_Witness ==
    /\ last.op = "SetTimeLayout"
    /\ last.arg = <<"1","2","0","0","6","-","0","1","-","0","2">>
    /\ last.err.kind = "CSVError"
    /\ last.preLayout = <<"0","2","/","0","1","/","2","0","0","6">>
    /\ timeLayout = <<"0","2","/","0","1","/","2","0","0","6">>

\* ------------------------------------------------------------------------
\* C4
\* ------------------------------------------------------------------------

\* the bound fields whose column lies beyond the end of the row read
ShortFields ==
    {i \in 1..NumField : Bound(i) /\ ColumnIndex(i) > Len(LastRow)}

\* C4: when ReadNext into the struct has read a row that ends before the
\* column of a bound field, it returns a CSVError whose Field names such a
\* field (by its column).
C4_ShortRowNamesField ==
    (ReadRow /\ ShortFields # {}) =>
        /\ last.err.kind = "CSVError"
        /\ \E i \in ShortFields : last.err.Field = ColumnName(i)

\* ------------------------------------------------------------------------
\* C5
\* ------------------------------------------------------------------------

\* what setFieldValue makes of the cell of field i in the row read, given
\* the value the field had in the struct the caller passed
Written(i) ==
    setFieldValue(Fields[i], last.pre[i], Cell(i),
                  parseCSVTag(Fields[i], timeLayout).timeFormat, timeLayout)

\* C5: when ReadNext has bound a row and returns an error, the error is that
\* of one field k: the conversion of the cell of field k fails and ReadNext
\* returns its error, naming field k and the cell; every bound field before k
\* with a cell that is not empty converted without error and holds the value
\* converted from this row; every field after k holds what it held in the
\* struct passed.
C5_StopsAtFirstFailure ==
    (Bind /\ last.err # NoError) =>
        LET k == last.idx
        IN  /\ k \in 1..NumField
            /\ Bound(k) /\ Cell(k) # <<>>
            /\ Written(k).err = last.err
            /\ last.err.kind = "CSVError"
            /\ last.err.Field = ToLower(Fields[k].Name)
            /\ last.err.Value = Cell(k)
            /\ \A i \in 1..(k - 1) :
                   (Bound(i) /\ Cell(i) # <<>>) =>
                       Written(i).err = NoError /\ rec[i] = Written(i).val
            /\ \A i \in (k + 1)..NumField : rec[i] = last.pre[i]

\* a row that fails at the *int field Score after Name, Age and Active were
\* set from it, the uint field Count after it as it was
C5_Witness ==
    /\ Bind /\ last.idx = 6
    /\ last.err = CSVError(<<"s","c","o","r","e">>, <<"7","x">>, "int", TRUE)
    /\ rec[1] = <<"E","d">> /\ last.pre[1] # <<"E","d">>
    /\ rec[2] = 5 /\ last.pre[2] # 5
    /\ rec[3] = FALSE /\ last.pre[3] = TRUE
    /\ rec[10] = last.pre[10]

\* ------------------------------------------------------------------------
\* C6
\* ------------------------------------------------------------------------

\* C6: a ReadNext on a reader that has not been closed, with rows left,
\* does not return EOF, reads the row at the reader's position and moves the
\* position on by one, whatever it returns and whatever the call before
\* returned; when it returns nil the struct holds the name of that very row.
\* With no rows left it returns EOF, which is no CSVError, and the position
\* and the struct are as before.
C6_OneRowPerCall ==
    (last.op = "ReadNext" /\ ~last.preClosed) =>
        IF last.prePos <= Len(rows)
        THEN /\ last.err # EOF
             /\ last.row = last.prePos
             /\ pos = last.prePos + 1
             /\ (last.dest = "struct" /\ last.err = NoError) =>
                    rec[1] = TrimSpace(RowAt(rows, last.prePos)[2])
        ELSE /\ last.err = EOF
             /\ last.err.kind # "CSVError"
             /\ last.row = 0
             /\ pos = last.prePos
             /\ rec = last.pre

\* the first row of the file has a bool cell no ReadNext converts (every
\* ReadNext of it returns a CSVError); the call after it read the second row
\* and returned nil
C6_Witness ==
    /\ rows = <<3, 6>>
    /\ last.op = "ReadNext" /\ ~last.preClosed
    /\ last.prePos = 2 /\ pos = 3
    /\ last.err = NoError
    /\ rec[1] = <<"F","l","o">>

\* ------------------------------------------------------------------------
\* C7
\* ------------------------------------------------------------------------

\* the row read with the cells of the columns no field is bound to emptied
BoundCellsOnly ==
    [c \in 1..Len(LastRow) |->
        IF \E i \in 1..NumField : Bound(i) /\ ColumnIndex(i) = c
        THEN LastRow[c] ELSE <<>>]

\* C7: when ReadNext has bound a row, a field that differs from what it was
\* in the struct passed is not marked "-", has its column (the name of its
\* tag, else its own name) among the headers, and has a trimmed cell that is
\* not empty; a field whose column the file lacks is not the field the call
\* failed at; and the struct and the error are those the same row gives with
\* the cells of the columns bound to no field emptied.
C7_OnlyBoundCellsWritten ==
    Bind =>
        /\ \A i \in 1..NumField :
               rec[i] # last.pre[i] =>
                   /\ ColumnName(i) # <<"-">>
                   /\ HasColumn(i)
                   /\ Cell(i) # <<>>
        /\ \A i \in 1..NumField : ~HasColumn(i) => last.idx # i
        /\ LET p == populateStruct(last.pre, BoundCellsOnly, headerMap, timeLayout)
           IN  p.rec = rec /\ p.err = last.err

\* a row with a cell in the column "extra" bound with nil returned: Name is
\* set from it, the field marked "-" and the field of the missing column
\* "nick" are as they were
C7_Witness ==
    /\ Bind /\ last.err = NoError
    /\ LastRow[3] = <<"z","z">>
    /\ rec[1] = <<"A","n","n">> /\ last.pre[1] # <<"A","n","n">>
    /\ rec[7] = last.pre[7]
    /\ ~HasColumn(8) /\ rec[8] = last.pre[8]

\* ------------------------------------------------------------------------
\* C8
\* ------------------------------------------------------------------------

\* the time format field i is parsed with: the second of the parts the
\* commas of its tag divide it into, else (a tag without a comma, or no tag)
\* the reader's layout as it is at the call
EffectiveFormat(i) ==
    IF HasComma(Fields[i].Tag) THEN BeforeComma(AfterComma(Fields[i].Tag))
    ELSE timeLayout

\* C8: when ReadNext has bound a row, a bound time field the loop came to,
\* whose trimmed cell is not empty and parses in the format of the field's
\* tag, or for a field without one in the reader's layout as last set, holds
\* the time so parsed, and the call did not fail at it.
C8_LiveDefaultLayout ==
    Bind =>
        \A i \in 1..NumField :
            (/\ Fields[i].kind = "time"
             /\ Bound(i) /\ Cell(i) # <<>>
             /\ (last.idx = 0 \/ last.idx >= i)
             /\ Parse(EffectiveFormat(i), Cell(i)).ok) =>
                /\ last.idx # i
                /\ rec[i] = Parse(EffectiveFormat(i), Cell(i)).t

\* after SetTimeLayout("02/01/2006") a row is bound whose birth_date cell
\* "03/04/2024" only the new layout parses: BirthDate is the 3rd of April
C8_Witness ==
    /\ Bind /\ last.err = NoError
    /\ timeLayout = <<"0","2","/","0","1","/","2","0","0","6">>
    /\ Cell(4) = <<"0","3","/","0","4","/","2","0","2","4">>
    /\ rec[4] = Date(2024, 4, 3, 0, 0, 0, 0)
    /\ last.pre[4] # rec[4]

\* ------------------------------------------------------------------------
\* C9
\* ------------------------------------------------------------------------

\* C9 as stated: a Close of a reader closed before returns nil.
C9_SecondCloseOk ==
    (last.op = "Close" /\ last.preClosed) => last.err = NoError

\* C9, amended: the first Close returns nil; a Close of a reader closed
\* before returns the error of the closed file, an error value like any
\* other, and leaves the reader closed, with its position, its layout and
\* the caller's struct as they were.
C9_SecondCloseErrClosed ==
    last.op = "Close" =>
        /\ fileClosed
        /\ pos = last.prePos /\ timeLayout = last.preLayout /\ rec = last.pre
        /\ last.err = (IF last.preClosed THEN ErrClosed ELSE NoError)

\* a second Close
C9_Witness ==
    last.op = "Close" /\ last.preClosed /\ last.err = ErrClosed /\ fileClosed

\* ------------------------------------------------------------------------
\* C10
\* ------------------------------------------------------------------------

\* C10: when ReadNext fails at a field, that field holds what it held in the
\* struct passed; a nil pointer field is nil still.
C10_FailedFieldUnchanged ==
    (Bind /\ last.idx # 0) => rec[last.idx] = last.pre[last.idx]

\* ------------------------------------------------------------------------
\* C11
\* ------------------------------------------------------------------------

\* the place in commonLayouts of the first layout that parses the text, 0
\* when none does
FirstCommon(text) ==
    LET hits == {k \in 1..Len(commonLayouts) : Parse(commonLayouts[k], text).ok}
    IN  IF hits = {} THEN 0 ELSE CHOOSE k \in hits : \A j \in hits : k <= j

\* the time a common layout found in the text, rendered in the reader's
\* layout and parsed back in it
Normalized(k, text) ==
    Parse(timeLayout, Format(Parse(commonLayouts[k], text).t, timeLayout))

C12_FormatAfterFirstComma ==
    Bind =>
        \A i \in 1..NumField :
            (/\ Fields[i].exported
             /\ HasComma(Fields[i].Tag)
             /\ (last.idx = 0 \/ last.idx >= i)) =>
                /\ parseCSVTag(Fields[i], timeLayout).name
                       = BeforeComma(Fields[i].Tag)
                /\ parseCSVTag(Fields[i], timeLayout).timeFormat
                       = AfterComma(Fields[i].Tag)
                /\ (/\ Fields[i].kind = "time"
                    /\ Bound(i) /\ Cell(i) # <<>>
                    /\ Parse(AfterComma(Fields[i].Tag), Cell(i)).ok) =>
                       /\ last.idx # i
                       /\ rec[i] = Parse(AfterComma(Fields[i].Tag), Cell(i)).t

\* ------------------------------------------------------------------------
\* C13
\* ------------------------------------------------------------------------

\* C13: with the reader shared by goroutines, while the store of
\* r.timeLayout by a goroutine in SetTimeLayout is in progress, no load of
\* r.timeLayout by the goroutine in ReadNext (in parseCSVTag,
\* sanitizeTimeValue or setTimeValue) is in progress, and no other goroutine
\* is storing it.
C13_StoreExclusive ==
    \A g \in Setters :
        pc[g] = "storing" => (~Loading /\ Storing = {g})

====
